---- MODULE Spec2Model ----
(***************************************************************************)
(* Model of seats_avios_daily.py: main() and the helpers it calls.         *)
(*                                                                         *)
(* A run of main() is a sequence of steps (fetch, normalise, pair, sort,   *)
(* de-dup, save, deliver) tracked by pc.  The dedup cache file             *)
(* .seen_hits.json persists between runs; every other variable is local to *)
(* one run.  dt.date values are proleptic Gregorian ordinals; strings in    *)
(* ISO form are tuples of their dash-separated integer parts.  A run is     *)
(* taken to lie within one UTC day.  booking_link/render_html only derive  *)
(* text from the fields kept here and are not part of the state.  The      *)
(* module-level statements at lines 4-8 and 414-419 of the file lie        *)
(* outside main() and are not modelled.                                    *)
(***************************************************************************)
EXTENDS Integers, Sequences, FiniteSets, TLC

VARIABLES MIN_RET_DAYS, MAX_RET_DAYS, FLEX_DAYS, DEDUP_DAYS, DRY_RUN,
          today, file, file0, pc,
          out_rows_raw, ret_rows_raw, out_rows, ret_rows,
          pairs, seen, fresh

vars == <<MIN_RET_DAYS, MAX_RET_DAYS, FLEX_DAYS, DEDUP_DAYS, DRY_RUN,
          today, file, file0, pc,
          out_rows_raw, ret_rows_raw, out_rows, ret_rows,
          pairs, seen, fresh>>

config == <<MIN_RET_DAYS, MAX_RET_DAYS, FLEX_DAYS, DEDUP_DAYS, DRY_RUN>>

(* ------------------------------ bounds -------------------------------- *)
MaxToday == 3      \* runs happen on days Epoch .. Epoch+MaxToday
MaxOutRows == 2    \* raw outbound rows per run (engine specification)
MaxRetRows == 2    \* raw return rows per run (engine specification)
MaxDelta == 5      \* return rows are offered 1..MaxDelta days after D0
MaxTtl == 2        \* DEDUP_DAYS ranges over -1..MaxTtl

(* --------------------------- dt.date ---------------------------------- *)
IsLeap(y) == (y % 4 = 0) /\ ((y % 100 # 0) \/ (y % 400 = 0))

DaysInMonth(y, m) ==
    IF m = 2 THEN (IF IsLeap(y) THEN 29 ELSE 28)
    ELSE IF m \in {4, 6, 9, 11} THEN 30 ELSE 31

RECURSIVE DaysBeforeMonth(_, _)
DaysBeforeMonth(y, m) ==
    IF m <= 1 THEN 0 ELSE DaysBeforeMonth(y, m - 1) + DaysInMonth(y, m - 1)

DaysBeforeYear(y) ==
    (y - 1) * 365 + ((y - 1) \div 4) - ((y - 1) \div 100) + ((y - 1) \div 400)

\* dt.date(y, m, d) raises ValueError unless this holds
ValidYmd(y, m, d) ==
    /\ y >= 1 /\ y <= 9999
    /\ m >= 1 /\ m <= 12
    /\ d >= 1 /\ d <= DaysInMonth(y, m)

Ymd2Ord(y, m, d) == DaysBeforeYear(y) + DaysBeforeMonth(y, m) + d

RECURSIVE YearOf(_, _)
YearOf(n, y) == IF n <= DaysBeforeYear(y + 1) THEN y ELSE YearOf(n, y + 1)

RECURSIVE MonthOf(_, _, _)
MonthOf(n, y, m) ==
    IF n <= DaysBeforeYear(y) + DaysBeforeMonth(y, m + 1) THEN m
    ELSE MonthOf(n, y, m + 1)

\* date.isoformat(): "YYYY-MM-DD" as <<YYYY, MM, DD>> (dates of 2025 on)
isoformat(n) ==
    LET y == YearOf(n, 2025)
        m == MonthOf(n, y, 1)
    IN  <<y, m, n - DaysBeforeYear(y) - DaysBeforeMonth(y, m)>>

NoDate == 0   \* Python None where a date is expected

\* dt.date.fromisoformat(s): exactly three parts naming a real day,
\* otherwise ValueError (NoDate)
fromisoformat(s) ==
    IF Len(s) = 3 /\ ValidYmd(s[1], s[2], s[3])
    THEN Ymd2Ord(s[1], s[2], s[3]) ELSE NoDate

Epoch == Ymd2Ord(2025, 11, 29)
D0 == Epoch + 1

(* ------------------------ JSON field values --------------------------- *)
\* A field value is absent, a number (int or float), a string holding a
\* number, or anything else (None, text, object).  h is the value in halves
\* so that 1.5 is h = 3.
Absent == [k |-> "absent", h |-> 0]
Num(h2) == [k |-> "num", h |-> h2]
Str(h2) == [k |-> "str", h |-> h2]
Junk == [k |-> "junk", h |-> 0]

\* int(x) on a float truncates toward zero
Trunc(h) == IF h >= 0 THEN h \div 2 ELSE -((-h) \div 2)

\* int(v) falling back to int(float(v)): succeeds on numbers and numeric
\* strings
Coercible(v) == v.k \in {"num", "str"}

RECURSIVE FirstCoercible(_, _)
FirstCoercible(vals, i) ==
    IF i > Len(vals) THEN 1000000000
    ELSE IF Coercible(vals[i]) THEN Trunc(vals[i].h)
    ELSE FirstCoercible(vals, i + 1)

\* row["miles"] holds the values under the keys
\* ("Avios","AviosPrice","AviosCost","Points","AwardCost") in that order
row_avios(row) == FirstCoercible(row.miles, 1)

\* row["taxes"] holds the values under ("Taxes","Cash","CashCost")
row_taxes(row) == FirstCoercible(row.taxes, 1)

is_premium_row(row) == row.JAvailable \/ row.FAvailable

\* s.split("T")[0].split("-") then dt.date(parts[0], parts[1], parts[2]);
\* parts past the third are ignored, fewer than three or an impossible day
\* give None
row_date(row) ==
    LET s == row.Date
    IN  IF Len(s) >= 3 /\ ValidYmd(s[1], s[2], s[3])
        THEN Ymd2Ord(s[1], s[2], s[3]) ELSE NoDate

\* int(r.get("Seats", 1)) raises on None/text and on a non-integer string
SeatsRaises(row) ==
    \/ row.Seats.k = "junk"
    \/ row.Seats.k = "str" /\ row.Seats.h % 2 # 0

SeatsOf(row) == IF row.Seats.k = "absent" THEN 1 ELSE Trunc(row.Seats.h)

\* a row survives the filter iff it is flagged premium and its date parses
Kept(row) == is_premium_row(row) /\ row_date(row) # NoDate

SCAN_HUB == "DOH"
SCAN_ORIGIN == "AKL"

\* the dict appended to out_rows / ret_rows; dflt is the airport used when
\* the row names none ("" stands for a missing airport)
LegOf(row, origDflt, destDflt) ==
    [orig  |-> IF row.OriginAirport = "" THEN origDflt ELSE row.OriginAirport,
     dest  |-> IF row.DestinationAirport = "" THEN destDflt
               ELSE row.DestinationAirport,
     date  |-> row_date(row),
     cabin |-> IF row.FAvailable THEN "First" ELSE "Business",
     avios |-> row_avios(row),
     cash  |-> row_taxes(row),
     seats |-> SeatsOf(row)]

RECURSIVE Normalize(_, _, _)
Normalize(rows, origDflt, destDflt) ==
    IF rows = <<>> THEN <<>>
    ELSE LET r == Head(rows)
             rest == Normalize(Tail(rows), origDflt, destDflt)
         IN  IF Kept(r) THEN <<LegOf(r, origDflt, destDflt)>> \o rest
             ELSE rest

\* the loop raises at the first kept row whose Seats does not convert
NormalizeRaises(rows) ==
    \E i \in 1..Len(rows) : Kept(rows[i]) /\ SeatsRaises(rows[i])

(* ------------------------------ pairing ------------------------------- *)
\* EU_STATIC cut to its first two destinations; USE_DYNAMIC_ROUTES is off
EU_STATIC == <<"AMS", "ATH">>
eu_list == EU_STATIC

RECURSIVE SelectRows(_, _, _)
SelectRows(rows, field, eu) ==
    IF rows = <<>> THEN <<>>
    ELSE IF Head(rows)[field] = eu
         THEN <<Head(rows)>> \o SelectRows(Tail(rows), field, eu)
         ELSE SelectRows(Tail(rows), field, eu)

out_by_dest(eu) == SelectRows(out_rows, "dest", eu)
ret_by_orig(eu) == SelectRows(ret_rows, "orig", eu)

Min(a, b) == IF a <= b THEN a ELSE b

\* the spec's rule: the stay may miss the window by up to FLEX_DAYS
InWindowFlex(delta) ==
    ~(delta < MIN_RET_DAYS - FLEX_DAYS \/ delta > MAX_RET_DAYS + FLEX_DAYS)

\* "return between min/max days after outbound"
InWindow(delta) == ~(delta < MIN_RET_DAYS \/ delta > MAX_RET_DAYS)

\* a variant that lets the cabins differ
CabinMatchAny(o, r) == TRUE

CabinMatch(o, r) == o.cabin = r.cabin

\* the body of the inner loop: nothing, or the one dict appended to pairs
PairOf(o, r, eu) ==
    IF InWindow(r.date - o.date) /\ CabinMatch(o, r)
    THEN <<[orig  |-> SCAN_ORIGIN,
            dest  |-> eu,
            dep   |-> o.date,
            ret   |-> r.date,
            cabin |-> o.cabin,
            avios |-> o.avios + r.avios,
            cash  |-> o.cash + r.cash,
            seats |-> Min(o.seats, r.seats)]>>
    ELSE <<>>

RECURSIVE PairWithRets(_, _, _)
PairWithRets(o, rets, eu) ==
    IF rets = <<>> THEN <<>>
    ELSE PairOf(o, Head(rets), eu) \o PairWithRets(o, Tail(rets), eu)

RECURSIVE PairOuts(_, _, _)
PairOuts(outs, rets, eu) ==
    IF outs = <<>> THEN <<>>
    ELSE PairWithRets(Head(outs), rets, eu) \o PairOuts(Tail(outs), rets, eu)

RECURSIVE PairAll(_)
PairAll(i) ==
    IF i > Len(eu_list) THEN <<>>
    ELSE PairOuts(out_by_dest(eu_list[i]), ret_by_orig(eu_list[i]), eu_list[i])
         \o PairAll(i + 1)

(* ------------------------------ ranking ------------------------------- *)
\* a plausible slip: rank on miles alone
KeyLeqAviosOnly(a, b) == a.avios <= b.avios

\* key=lambda x: (x["avios"], x["cash"]), compared as tuples
KeyLeq(a, b) == a.avios < b.avios \/ (a.avios = b.avios /\ a.cash <= b.cash)

\* insert x behind every element whose key is not greater: list.sort is stable
RECURSIVE InsertStable(_, _)
InsertStable(sorted, x) ==
    IF sorted = <<>> THEN <<x>>
    ELSE IF KeyLeq(Head(sorted), x)
         THEN <<Head(sorted)>> \o InsertStable(Tail(sorted), x)
         ELSE <<x>> \o sorted

RECURSIVE SortFrom(_, _)
SortFrom(acc, rest) ==
    IF rest = <<>> THEN acc
    ELSE SortFrom(InsertStable(acc, Head(rest)), Tail(rest))

SortPairs(ps) == SortFrom(<<>>, ps)

(* ---------------------------- dedup cache ----------------------------- *)
hit_key(p) ==
    <<p.orig, p.dest, isoformat(p.dep),
      IF p.ret # NoDate THEN isoformat(p.ret) ELSE <<>>,
      p.cabin, p.avios, p.cash>>

\* a cache value: a JSON object (with or without a "date") or anything else
Entry(d) == [obj |-> TRUE, hasDate |-> TRUE, date |-> d]
EntryNoDate == [obj |-> TRUE, hasDate |-> FALSE, date |-> <<>>]
EntryBadDate == [obj |-> TRUE, hasDate |-> TRUE, date |-> <<2025, 13, 1>>]
EntryNotObject == [obj |-> FALSE, hasDate |-> FALSE, date |-> <<>>]

\* the file: absent, not JSON, JSON that is no object, or a JSON object
FileMissing == [kind |-> "missing", data |-> <<>>]
FileCorrupt == [kind |-> "corrupt", data |-> <<>>]
FileNotDict == [kind |-> "notdict", data |-> <<>>]
FileDict(d) == [kind |-> "dict", data |-> d]

\* ts of an entry, NoDate when v.get / fromisoformat raises
EntryTs(v) ==
    IF ~v.obj THEN NoDate
    ELSE fromisoformat(IF v.hasDate THEN v.date ELSE <<1970, 1, 1>>)

\* a plausible slip: drop the entry that is exactly max_age_days old
RetainedStrict(v, now, max_age_days) ==
    EntryTs(v) # NoDate /\ EntryTs(v) > now - max_age_days

\* ts >= cutoff, cutoff = today - max_age_days
Retained(v, now, max_age_days) ==
    EntryTs(v) # NoDate /\ EntryTs(v) >= now - max_age_days

\* data.items() outside the try block raises unless data is a dict
load_seen_raises(f) == f.kind = "notdict"

load_seen(f, now, max_age_days) ==
    IF f.kind # "dict" THEN <<>>
    ELSE LET keep == {k \in DOMAIN f.data : Retained(f.data[k], now, max_age_days)}
         IN  [k \in keep |-> f.data[k]]

Put(d, k, v) == [x \in (DOMAIN d) \cup {k} |-> IF x = k THEN v ELSE d[x]]

\* one pass of the loop "for p in pairs"
DedupStep(st, p, now) ==
    LET k == hit_key(p)
    IN  IF k \in DOMAIN st.seen THEN st
        ELSE [seen  |-> Put(st.seen, k, Entry(isoformat(now))),
              fresh |-> Append(st.fresh, p)]

RECURSIVE DedupLoop(_, _, _)
DedupLoop(st, ps, now) ==
    IF ps = <<>> THEN st
    ELSE DedupLoop(DedupStep(st, Head(ps), now), Tail(ps), now)

(* --------------------------- raw API rows ----------------------------- *)
Whole(n) == Num(2 * n)

Row(j, f, date, orig, dest, miles, taxes, seats, mixed) ==
    [JAvailable |-> j, FAvailable |-> f, Date |-> date,
     OriginAirport |-> orig, DestinationAirport |-> dest,
     miles |-> miles, taxes |-> taxes, Seats |-> seats, MixedCabin |-> mixed]

\* a well-formed Business row
OutRow(dest, miles) ==
    Row(TRUE, FALSE, isoformat(D0), SCAN_HUB, dest, miles, <<Whole(500)>>,
        Whole(2), FALSE)

RetRow(orig, delta, miles) ==
    Row(TRUE, FALSE, isoformat(D0 + delta), orig, SCAN_HUB, miles,
        <<Whole(600)>>, Absent, FALSE)

\* rows of the life-cycle specification
LifeOutRows ==
    { OutRow("AMS", <<Whole(70000)>>),
      \* Seats that int() rejects
      Row(TRUE, FALSE, isoformat(D0), SCAN_HUB, "AMS", <<Whole(70000)>>,
          <<Whole(500)>>, Junk, FALSE) }
LifeRetRows == {RetRow("AMS", 2, <<Whole(75000)>>), RetRow("AMS", 3, <<Whole(75000)>>)}

\* rows of the engine specification
EngineOutRows ==
    { OutRow("AMS", <<Whole(70000)>>),
      OutRow("ATH", <<Whole(70000)>>),
      \* First and Business both flagged, timestamp form of the date
      Row(TRUE, TRUE, isoformat(D0) \o <<0>>, "", "AMS", <<Whole(70000)>>,
          <<Whole(500)>>, Str(4), FALSE),
      \* flagged available, miles cost zero under the second alias key
      Row(TRUE, FALSE, isoformat(D0), SCAN_HUB, "AMS", <<Junk, Whole(0)>>,
          <<Absent>>, Whole(2), FALSE),
      \* mixed-cabin row, dearer in taxes
      Row(TRUE, FALSE, isoformat(D0), SCAN_HUB, "AMS", <<Whole(70000)>>,
          <<Whole(700)>>, Whole(2), TRUE),
      \* no premium cabin flagged
      Row(FALSE, FALSE, isoformat(D0), SCAN_HUB, "AMS", <<Whole(70000)>>,
          <<Whole(500)>>, Whole(2), FALSE),
      \* Seats that int() rejects
      Row(TRUE, FALSE, isoformat(D0), SCAN_HUB, "AMS", <<Whole(70000)>>,
          <<Whole(500)>>, Str(3), FALSE) }

EngineRetRows ==
    { RetRow("AMS", d, <<Whole(75000)>>) : d \in 1..MaxDelta }
    \cup
    { RetRow("ATH", 2, <<Whole(75000)>>),
      Row(FALSE, TRUE, isoformat(D0 + 2), "AMS", "", <<Num(150001)>>,
          <<Str(1201)>>, Absent, FALSE),
      \* 30 February
      Row(TRUE, FALSE, <<2026, 2, 30>>, "AMS", SCAN_HUB, <<Whole(75000)>>,
          <<Whole(600)>>, Absent, FALSE) }

SeqsUpTo(S, n) == UNION {[1..m -> S] : m \in 0..n}

(* ------------------------------ actions ------------------------------- *)
RunLocalsReset ==
    /\ out_rows_raw' = <<>>
    /\ ret_rows_raw' = <<>>
    /\ out_rows' = <<>>
    /\ ret_rows' = <<>>
    /\ pairs' = <<>>
    /\ seen' = <<>>
    /\ fresh' = <<>>

InitFiles ==
    { FileMissing, FileCorrupt, FileNotDict, FileDict(<<>>),
      FileDict([k \in {<<"a">>, <<"b">>, <<"c">>} |->
                  IF k = <<"a">> THEN EntryNoDate
                  ELSE IF k = <<"b">> THEN EntryBadDate
                  ELSE EntryNotObject]) }

RunStart ==
    /\ pc = "start"
    /\ out_rows_raw = <<>> /\ ret_rows_raw = <<>>
    /\ out_rows = <<>> /\ ret_rows = <<>>
    /\ pairs = <<>> /\ seen = <<>> /\ fresh = <<>>
    /\ file0 = file

Init ==
    /\ MIN_RET_DAYS \in {2, 3}
    /\ MAX_RET_DAYS = 5 - MIN_RET_DAYS
    /\ FLEX_DAYS = 1
    /\ DEDUP_DAYS \in -1..MaxTtl
    /\ DRY_RUN \in BOOLEAN
    /\ today = Epoch
    /\ file \in InitFiles
    /\ RunStart

InitEngine ==
    /\ MIN_RET_DAYS = 2
    /\ MAX_RET_DAYS = 3
    /\ FLEX_DAYS \in {0, 1}
    /\ DEDUP_DAYS = 1
    /\ DRY_RUN = TRUE
    /\ today = Epoch
    /\ file = FileMissing
    /\ RunStart

\* the two query loops: the rows the API returned, in arrival order
Fetch(outs, rets) ==
    /\ pc = "start"
    /\ out_rows_raw' = outs
    /\ ret_rows_raw' = rets
    /\ pc' = "fetched"
    /\ UNCHANGED <<config, today, file, file0, out_rows, ret_rows, pairs, seen, fresh>>

\* "Normalize / filter premium only", both loops
NormalizeRows ==
    /\ pc = "fetched"
    /\ ~NormalizeRaises(out_rows_raw) /\ ~NormalizeRaises(ret_rows_raw)
    /\ out_rows' = Normalize(out_rows_raw, SCAN_HUB, "")
    /\ ret_rows' = Normalize(ret_rows_raw, "", SCAN_HUB)
    /\ pc' = "normalized"
    /\ UNCHANGED <<config, today, file, file0, out_rows_raw, ret_rows_raw, pairs, seen, fresh>>

\* int(r.get("Seats", 1)) raises inside one of the loops: main() ends
NormalizeAbort ==
    /\ pc = "fetched"
    /\ NormalizeRaises(out_rows_raw) \/ NormalizeRaises(ret_rows_raw)
    /\ pc' = "aborted"
    /\ UNCHANGED <<config, today, file, file0, out_rows_raw, ret_rows_raw,
                   out_rows, ret_rows, pairs, seen, fresh>>

\* "Pairing logic"
Pair ==
    /\ pc = "normalized"
    /\ pairs' = PairAll(1)
    /\ pc' = "paired"
    /\ UNCHANGED <<config, today, file, file0, out_rows_raw, ret_rows_raw,
                   out_rows, ret_rows, seen, fresh>>

\* pairs.sort(...)
Sort ==
    /\ pc = "paired"
    /\ pairs' = SortPairs(pairs)
    /\ pc' = "sorted"
    /\ UNCHANGED <<config, today, file, file0, out_rows_raw, ret_rows_raw,
                   out_rows, ret_rows, seen, fresh>>

\* "De-dup": load_seen, then the loop over pairs
Dedup ==
    /\ pc = "sorted"
    /\ ~load_seen_raises(file)
    /\ LET st == DedupLoop([seen |-> load_seen(file, today, DEDUP_DAYS),
                            fresh |-> <<>>], pairs, today)
       IN  /\ seen' = st.seen
           /\ fresh' = st.fresh
    /\ pc' = "deduped"
    /\ UNCHANGED <<config, today, file, file0, out_rows_raw, ret_rows_raw,
                   out_rows, ret_rows, pairs>>

\* load_seen raises AttributeError: main() ends
DedupAbort ==
    /\ pc = "sorted"
    /\ load_seen_raises(file)
    /\ pc' = "aborted"
    /\ UNCHANGED <<config, today, file, file0, out_rows_raw, ret_rows_raw,
                   out_rows, ret_rows, pairs, seen, fresh>>

\* group, render, write out.html, then save_seen(seen) succeeds
Save ==
    /\ pc = "deduped"
    /\ file' = FileDict(seen)
    /\ pc' = "saved"
    /\ UNCHANGED <<config, today, file0, out_rows_raw, ret_rows_raw,
                   out_rows, ret_rows, pairs, seen, fresh>>

\* save_seen swallows an OSError: open() failed (file untouched) or the
\* write broke off after open() truncated the file
SaveFail ==
    /\ pc = "deduped"
    /\ file' \in {file, FileCorrupt}
    /\ pc' = "saved"
    /\ UNCHANGED <<config, today, file0, out_rows_raw, ret_rows_raw,
                   out_rows, ret_rows, pairs, seen, fresh>>

\* DRY_RUN returns; otherwise send_brevo_rest returns
Deliver ==
    /\ pc = "saved"
    /\ pc' = "done"
    /\ UNCHANGED <<config, today, file, file0, out_rows_raw, ret_rows_raw,
                   out_rows, ret_rows, pairs, seen, fresh>>

\* send_brevo_rest raises and main() re-raises
DeliverFail ==
    /\ pc = "saved"
    /\ ~DRY_RUN
    /\ pc' = "aborted"
    /\ UNCHANGED <<config, today, file, file0, out_rows_raw, ret_rows_raw,
                   out_rows, ret_rows, pairs, seen, fresh>>

\* the next scheduled run: a new process, the same or a later day
NextRun(d) ==
    /\ pc \in {"done", "aborted"}
    /\ d >= today /\ d <= Epoch + MaxToday
    /\ today' = d
    /\ file0' = file
    /\ pc' = "start"
    /\ RunLocalsReset
    /\ UNCHANGED <<config, file>>

Next ==
    \/ \E outs \in SeqsUpTo(LifeOutRows, 1), rets \in SeqsUpTo(LifeRetRows, 2) :
          Fetch(outs, rets)
    \/ NormalizeRows
    \/ NormalizeAbort
    \/ Pair
    \/ Sort
    \/ Dedup
    \/ DedupAbort
    \/ Save
    \/ SaveFail
    \/ Deliver
    \/ DeliverFail
    \/ \E d \in Epoch..(Epoch + MaxToday) : NextRun(d)

Spec == Init /\ [][Next]_vars

NextEngine ==
    \/ \E outs \in SeqsUpTo(EngineOutRows, MaxOutRows),
          rets \in SeqsUpTo(EngineRetRows, MaxRetRows) : Fetch(outs, rets)
    \/ NormalizeRows
    \/ NormalizeAbort
    \/ Pair
    \/ Sort

SpecEngine == InitEngine /\ [][NextEngine]_vars

TypeOK == pc \in {"start", "fetched", "normalized", "paired", "sorted",
                  "deduped", "saved", "done", "aborted"}

C2_DedupMonotonic ==
    pc = "deduped" =>
      \A i \in DOMAIN pairs :
        LET k == hit_key(pairs[i])
        IN  (/\ file0.kind = "dict"
             /\ k \in DOMAIN file0.data
             /\ EntryTs(file0.data[k]) # NoDate
             /\ EntryTs(file0.data[k]) <= today)
            => ((\E n \in DOMAIN fresh : hit_key(fresh[n]) = k)
                <=> today - EntryTs(file0.data[k]) > DEDUP_DAYS)

\* one run meets an entry exactly DEDUP_DAYS old, which it suppresses, and
\* an older one, which it reports again
C2_Witness ==
    /\ pc = "deduped"
    /\ DEDUP_DAYS >= 1
    /\ file0.kind = "dict"
    /\ \E i, j \in DOMAIN pairs :
         LET ki == hit_key(pairs[i])
             kj == hit_key(pairs[j])
         IN  /\ ki \in DOMAIN file0.data /\ kj \in DOMAIN file0.data
             /\ today - EntryTs(file0.data[ki]) = DEDUP_DAYS
             /\ today - EntryTs(file0.data[kj]) = DEDUP_DAYS + 1
             /\ \A n \in DOMAIN fresh : hit_key(fresh[n]) # ki
             /\ \E n \in DOMAIN fresh : hit_key(fresh[n]) = kj

\* C3: after the dedup step of a run on day T the cache entry of every
\* paired itinerary's fingerprint is dated T.
C3_AllMarkedToday ==
    pc = "deduped" =>
      \A i \in DOMAIN pairs :
        /\ hit_key(pairs[i]) \in DOMAIN seen
        /\ EntryTs(seen[hit_key(pairs[i])]) = today

\* C4: with DEDUP_DAYS <= 0 every paired itinerary is reported and the run
\* leaves the cache file alone.
C4_DedupDisabled ==
    DEDUP_DAYS <= 0 =>
      /\ pc = "deduped" =>
           \A i \in DOMAIN pairs :
             \E n \in DOMAIN fresh : hit_key(fresh[n]) = hit_key(pairs[i])
      /\ file = file0

\* C5: a run that ends with an error leaves the cache file as it was when
\* the run started.
C5_AbortLeavesCache == pc = "aborted" => file = file0

\* C6: neither loading nor saving the cache ends the run with an error.
C6_CacheNeverFatal ==
    [][(pc \in {"sorted", "deduped"}) => (pc' # "aborted")]_vars

(* ==================== configuration check (C9) ======================== *)
\* C9: with MAX_RET_DAYS < MIN_RET_DAYS no run completes.
C9_RefusesToRun == MAX_RET_DAYS < MIN_RET_DAYS => pc # "done"

(* ======================== classifier (C7, C8) ========================= *)
\* C7: every leg has miles > 0 and every itinerary has total miles > 0.
C7_PositiveMiles ==
    /\ \A i \in DOMAIN out_rows : out_rows[i].avios > 0
    /\ \A i \in DOMAIN ret_rows : ret_rows[i].avios > 0
    /\ \A i \in DOMAIN pairs : pairs[i].avios > 0

\* C8: rows with MixedCabin set yield no leg, so there are at most as many
\* legs as there are rows without it.
C8_MixedYieldsNoLeg ==
    pc \in {"normalized", "paired", "sorted"} =>
      Len(out_rows) + Len(ret_rows) <=
        Cardinality({i \in DOMAIN out_rows_raw : ~out_rows_raw[i].MixedCabin})
        + Cardinality({i \in DOMAIN ret_rows_raw : ~ret_rows_raw[i].MixedCabin})

(* ============================ ranking (C10) =========================== *)
\* C10 as stated: the ranked list ascends in
\* (total miles, total taxes, destination, outbound date, return date).
C10_FiveKeyOrder ==
    pc = "sorted" =>
      \A i, j \in DOMAIN pairs :
        i < j =>
          LET a == pairs[i]
              b == pairs[j]
              rank(d) == CHOOSE n \in DOMAIN eu_list : eu_list[n] = d
          IN  \/ a.avios < b.avios
              \/ a.avios = b.avios /\ a.cash < b.cash
              \/ a.avios = b.avios /\ a.cash = b.cash
                 /\ rank(a.dest) < rank(b.dest)
              \/ a.avios = b.avios /\ a.cash = b.cash /\ a.dest = b.dest
                 /\ a.dep < b.dep
              \/ a.avios = b.avios /\ a.cash = b.cash /\ a.dest = b.dest
                 /\ a.dep = b.dep /\ a.ret <= b.ret

\* C10 amended: the ranked list ascends in (total miles, total taxes) only,
\* and itineraries equal in both keep the order in which pairing produced
\* them.
C10_TwoKeyStable ==
    [][(pc = "paired" /\ pc' = "sorted") =>
         /\ Len(pairs') = Len(pairs)
         /\ \A i, j \in DOMAIN pairs' :
              i < j =>
                \/ pairs'[i].avios < pairs'[j].avios
                \/ /\ pairs'[i].avios = pairs'[j].avios
                   /\ pairs'[i].cash <= pairs'[j].cash
         /\ \A n \in DOMAIN pairs :
              LET Tie(p) == p.avios = pairs[n].avios /\ p.cash = pairs[n].cash
              IN  SelectSeq(pairs', Tie) = SelectSeq(pairs, Tie)]_vars

\* two itineraries equal in miles and taxes, ranked with the later return
\* first because pairing produced them in that order
C10_Witness ==
    /\ pc = "sorted"
    /\ \E i, j \in DOMAIN pairs :
         /\ i < j
         /\ pairs[i].avios = pairs[j].avios
         /\ pairs[i].cash = pairs[j].cash
         /\ pairs[i].dest = pairs[j].dest
         /\ pairs[i].dep = pairs[j].dep
         /\ pairs[i].ret > pairs[j].ret

(* ===================== pairing output (C11, C12) ====================== *)
\* C11: no two produced itineraries share the identity tuple; the outbound
\* origin and return destination are the same for every pair, so the tuple
\* is (destination, outbound date, return date, cabin).
C11_NoDuplicatePairs ==
    \A i, j \in DOMAIN pairs :
      i < j =>
        \/ pairs[i].orig # pairs[j].orig
        \/ pairs[i].dest # pairs[j].dest
        \/ pairs[i].dep # pairs[j].dep
        \/ pairs[i].ret # pairs[j].ret
        \/ pairs[i].cabin # pairs[j].cabin

\* C12: every produced itinerary joins an outbound leg and a return leg of
\* one cabin, and carries that cabin.
C12_SameCabin ==
    pc \in {"paired", "sorted"} =>
      \A n \in DOMAIN pairs :
        \E i \in DOMAIN out_rows, j \in DOMAIN ret_rows :
          /\ out_rows[i].dest = pairs[n].dest
          /\ ret_rows[j].orig = pairs[n].dest
          /\ out_rows[i].date = pairs[n].dep
          /\ ret_rows[j].date = pairs[n].ret
          /\ out_rows[i].avios + ret_rows[j].avios = pairs[n].avios
          /\ out_rows[i].cash + ret_rows[j].cash = pairs[n].cash
          /\ out_rows[i].cabin = ret_rows[j].cabin
          /\ pairs[n].cabin = out_rows[i].cabin

\* a First and a Business outbound meet one First return inside the window:
\* only the First pair is produced
C12_Witness ==
    /\ pc = "paired"
    /\ Len(pairs) = 1
    /\ pairs[1].cabin = "First"
    /\ \E i \in DOMAIN out_rows, j \in DOMAIN ret_rows :
         /\ out_rows[i].cabin = "Business"
         /\ ret_rows[j].cabin = "First"
         /\ out_rows[i].dest = ret_rows[j].orig
         /\ ret_rows[j].date - out_rows[i].date >= MIN_RET_DAYS
         /\ ret_rows[j].date - out_rows[i].date <= MAX_RET_DAYS

====
